---- MODULE Spec2Model ----
(***************************************************************************)
(* Model of the two-character voice pipeline of                            *)
(* src/pipecat/character_processor.py as wired in src/pipecat/bot.py:      *)
(*                                                                         *)
(*   llm -> CharacterTagger -> ParallelPipeline([CharacterGate("AA"), tts],*)
(*          [CharacterGate("BB"), tts]) -> TTSSegmentSequencer -> output   *)
(*                                                                         *)
(* Text is a sequence of symbols.  The two tag markers "AA" and "BB" are   *)
(* symbols of their own, "x" stands for any other character of a line and  *)
(* "\n" is the line break, which the "." of the tagger's regular           *)
(* expression does not match.                                              *)
(***************************************************************************)
EXTENDS Integers, Sequences, FiniteSets, TLC

\* ------------------------------------------------------------------ bounds
MaxResp == 2
MaxTok == 1
MaxAloneTok == 3
MaxTokLen == 2
MaxSys == 1
MaxSysResp == 1

\* --------------------------------------------------------------- alphabets
Characters == {"AA", "BB"}
NL == "\n"
Symbols == Characters \cup {"x", NL}
DefaultCharacter == "AA"

DOWNSTREAM == "DOWNSTREAM"
UPSTREAM == "UPSTREAM"

\* Frame classes.  Of these only SystemFrame and EndFrame are instances of
\* (EndFrame, SystemFrame).
SystemKinds == {"SystemFrame", "EndFrame"}

SeqsUpTo(S, n) == UNION {[1..k -> S] : k \in 1..n}
Tokens == SeqsUpTo(Symbols, MaxTokLen)
\* The tokens the whole pipeline is driven with: the tag of the default
\* speaker followed by text, and text with the other speaker's tag in its
\* middle.
PipeTokens == {<<"AA", "x">>, <<"x", "BB", "x">>}

\* ------------------------------------------------------------------ frames
NoId == <<"-", 0>>
Frame(kind, character, text, id, seg, resp) ==
  [kind |-> kind, character |-> character, text |-> text, id |-> id,
   seg |-> seg, resp |-> resp]
CharacterTagFrame(character, id, seg, resp) ==
  Frame("CharacterTagFrame", character, <<>>, id, seg, resp)
LLMFullResponseStartFrame(id, seg, resp) ==
  Frame("LLMFullResponseStartFrame", "", <<>>, id, seg, resp)
LLMFullResponseEndFrame(id, seg, resp) ==
  Frame("LLMFullResponseEndFrame", "", <<>>, id, seg, resp)
LLMTextFrame(text, id, seg, resp) ==
  Frame("LLMTextFrame", "", text, id, seg, resp)
NextCharacterSequenceFrame(id) ==
  Frame("NextCharacterSequenceFrame", "", <<>>, id, 0, 0)
Push(f, direction) == [f |-> f, dir |-> direction]

\* ------------------------------------------------------------ the regex
\* re.match(r"(.*)(AA|BB)(.*)", text): the match starts at the first symbol,
\* "." stops at a line break, and the first group is greedy, so the tag that
\* is matched is the last one of the first line.
Max(S) == CHOOSE m \in S : \A k \in S : k <= m
Min(S) == CHOOSE m \in S : \A k \in S : m <= k
LineEnd(text) ==
  LET brk == {i \in 1..Len(text) : text[i] = NL}
  IN IF brk = {} THEN Len(text) ELSE Min(brk) - 1
TagPositions(text) == {i \in 1..LineEnd(text) : text[i] \in Characters}
ReMatches(text) == TagPositions(text) # {}
ReGroup1(text) == SubSeq(text, 1, Max(TagPositions(text)) - 1)
ReGroup2(text) == text[Max(TagPositions(text))]
ReGroup3(text) == SubSeq(text, Max(TagPositions(text)) + 1, LineEnd(text))

\* --------------------------------------------------------- CharacterTagger
\* The tagger's state while a frame is handled: current_character, segments,
\* out (every push_frame call so far, in order) and the counters seg and resp
\* that number the segments and responses.  A frame the tagger creates takes
\* its id from its place in out.
Segment(character, text, buffered, seg, resp) ==
  [character |-> character, text |-> text, buffered |-> buffered,
   seg |-> seg, resp |-> resp]
NewId(st) == <<"T", Len(st.out) + 1>>
PushFrame(st, f, direction) == [st EXCEPT !.out = Append(@, Push(f, direction))]

\* A variant of create_segment that never buffers, used to show that C14
\* depends on should_buffer.
create_segment_never_buffers(st, character) ==
  LET n == st.seg + 1
      st1 == [st EXCEPT !.seg = n,
                        !.segments = Append(@, Segment(character, <<>>, FALSE, n, st.resp))]
      st2 == PushFrame(st1, CharacterTagFrame(character, NewId(st1), n, st.resp), DOWNSTREAM)
  IN PushFrame(st2, LLMFullResponseStartFrame(NewId(st2), n, st.resp), DOWNSTREAM)

create_segment(st, character) ==
  LET should_buffer == Len(st.segments) > 0
      n == st.seg + 1
      st1 == [st EXCEPT !.seg = n,
                        !.segments = Append(@, Segment(character, <<>>, should_buffer, n, st.resp))]
  IN IF ~should_buffer
       THEN LET st2 == PushFrame(st1, CharacterTagFrame(character, NewId(st1), n, st.resp), DOWNSTREAM)
            IN PushFrame(st2, LLMFullResponseStartFrame(NewId(st2), n, st.resp), DOWNSTREAM)
       ELSE st1

\* text_or_frame is given as the frame: a string argument becomes a new
\* LLMTextFrame (id NoId here, numbered when it is pushed).
push_text(st, text, id) ==
  LET st1 == IF Len(st.segments) = 0 THEN create_segment(st, DefaultCharacter) ELSE st
      last == st1.segments[Len(st1.segments)]
      fid == IF id = NoId THEN NewId(st1) ELSE id
  IN IF ~last.buffered
       THEN PushFrame(st1, LLMTextFrame(text, fid, last.seg, last.resp), DOWNSTREAM)
       ELSE [st1 EXCEPT !.segments[Len(st1.segments)].text = @ \o text]

\* A variant of flush_character_segment that pushes a closing marker also
\* when the queue is empty, used to show that C13 depends on the early return.
flush_character_segment_end_on_empty(st) ==
  IF Len(st.segments) = 0
    THEN PushFrame(st, LLMFullResponseEndFrame(NewId(st), 0, st.resp), DOWNSTREAM)
  ELSE LET segment == Head(st.segments)
           st1 == [st EXCEPT !.segments = Tail(@)]
       IN IF ~segment.buffered
            THEN PushFrame(st1, LLMFullResponseEndFrame(NewId(st1), segment.seg, segment.resp), DOWNSTREAM)
            ELSE LET st2 == PushFrame(st1, CharacterTagFrame(segment.character, NewId(st1), segment.seg, segment.resp), DOWNSTREAM)
                     st3 == PushFrame(st2, LLMFullResponseStartFrame(NewId(st2), segment.seg, segment.resp), DOWNSTREAM)
                     st4 == PushFrame(st3, LLMTextFrame(segment.text, NewId(st3), segment.seg, segment.resp), DOWNSTREAM)
                 IN PushFrame(st4, LLMFullResponseEndFrame(NewId(st4), segment.seg, segment.resp), DOWNSTREAM)

flush_character_segment(st) ==
  IF Len(st.segments) = 0 THEN st
  ELSE LET segment == Head(st.segments)
           st1 == [st EXCEPT !.segments = Tail(@)]
       IN IF ~segment.buffered
            THEN PushFrame(st1, LLMFullResponseEndFrame(NewId(st1), segment.seg, segment.resp), DOWNSTREAM)
            ELSE LET st2 == PushFrame(st1, CharacterTagFrame(segment.character, NewId(st1), segment.seg, segment.resp), DOWNSTREAM)
                     st3 == PushFrame(st2, LLMFullResponseStartFrame(NewId(st2), segment.seg, segment.resp), DOWNSTREAM)
                     st4 == PushFrame(st3, LLMTextFrame(segment.text, NewId(st3), segment.seg, segment.resp), DOWNSTREAM)
                 IN PushFrame(st4, LLMFullResponseEndFrame(NewId(st4), segment.seg, segment.resp), DOWNSTREAM)

TagDiffers(character, current) == character # current

TaggerText(st, frame) ==
  IF ReMatches(frame.text)
    THEN LET pre_text == ReGroup1(frame.text)
             character == ReGroup2(frame.text)
             post_text == ReGroup3(frame.text)
             st1 == IF pre_text # <<>> THEN push_text(st, pre_text, NoId) ELSE st
             st2 == IF TagDiffers(character, st1.current_character)
                      THEN create_segment([st1 EXCEPT !.current_character = character], character)
                      ELSE st1
         IN IF post_text # <<>> THEN push_text(st2, post_text, NoId) ELSE st2
    ELSE push_text(st, frame.text, frame.id)

\* A variant of process_frame that also pushes the response-start marker of
\* the llm on, used to show that C15 depends on its being held back.
CharacterTagger_process_frame_forwards_start(st, frame, direction) ==
  CASE frame.kind = "LLMFullResponseStartFrame" ->
         PushFrame([st EXCEPT !.segments = <<>>, !.resp = @ + 1], frame, direction)
    [] frame.kind = "LLMFullResponseEndFrame" ->
         flush_character_segment(st)
    [] frame.kind = "NextCharacterSequenceFrame" ->
         PushFrame(flush_character_segment(st), frame, direction)
    [] frame.kind = "LLMTextFrame" ->
         TaggerText(st, frame)
    [] OTHER -> PushFrame(st, frame, direction)

CharacterTagger_process_frame(st, frame, direction) ==
  CASE frame.kind = "LLMFullResponseStartFrame" ->
         [st EXCEPT !.segments = <<>>, !.resp = @ + 1]
    [] frame.kind = "LLMFullResponseEndFrame" ->
         flush_character_segment(st)
    [] frame.kind = "NextCharacterSequenceFrame" ->
         PushFrame(flush_character_segment(st), frame, direction)
    [] frame.kind = "LLMTextFrame" ->
         TaggerText(st, frame)
    [] OTHER -> PushFrame(st, frame, direction)


\* ------------------------------------------------------------ CharacterGate
\* Two variants of _should_passthrough_frame, used to show that C7 and C8
\* depend on it: one that lets every frame through, and one that also exempts
\* the response boundary markers from filtering.
should_passthrough_frame_always(isOpen, frame) == TRUE
should_passthrough_frame_markers(isOpen, frame) ==
  IF isOpen THEN TRUE
  ELSE frame.kind \in SystemKinds \cup {"LLMFullResponseStartFrame", "LLMFullResponseEndFrame"}

should_passthrough_frame(isOpen, frame) ==
  IF isOpen THEN TRUE ELSE frame.kind \in SystemKinds

\* A variant of the tag handling in which a tag of another character does not
\* close the gate, used to show that C9 depends on the closing.
GateOpenAfter_never_closes(character, isOpen, frame) ==
  IF frame.kind = "CharacterTagFrame" /\ frame.character = character THEN TRUE ELSE isOpen

\* The open flag after the frame's tag (if it is one) has been applied.
GateOpenAfter(character, isOpen, frame) ==
  IF frame.kind = "CharacterTagFrame" THEN frame.character = character ELSE isOpen

\* [open, pushes]: the flag after the frame and the push_frame calls made.
CharacterGate_process_frame(character, isOpen, frame, direction) ==
  LET o == GateOpenAfter(character, isOpen, frame)
  IN [open |-> o,
      pushes |-> IF should_passthrough_frame(o, frame)
                   THEN <<Push(frame, direction)>> ELSE <<>>]

\* ------------------------------------------------------ TTSSegmentSequencer
\* The push_frame calls of one process_frame call, in order.  id is the id of
\* the NextCharacterSequenceFrame it may create.
\* A variant that forwards the closing marker before it asks for the next
\* segment, used to show that C10 depends on the order of the two pushes.
TTSSegmentSequencer_process_frame_forward_first(frame, direction, id) ==
  IF frame.kind = "LLMFullResponseEndFrame"
    THEN <<Push(frame, direction), Push(NextCharacterSequenceFrame(id), UPSTREAM)>>
    ELSE <<Push(frame, direction)>>

TTSSegmentSequencer_process_frame(frame, direction, id) ==
  IF frame.kind = "LLMFullResponseEndFrame"
    THEN <<Push(NextCharacterSequenceFrame(id), UPSTREAM), Push(frame, direction)>>
    ELSE <<Push(frame, direction)>>

\* -------------------------------------------------------------------- state
VARIABLES
  current_character,  \* CharacterTagger.current_character
  segments,           \* CharacterTagger.segments
  handled,            \* every process_frame call of the tagger, in order
  emitted,            \* every push_frame call of the tagger, in order
  segCount,           \* segments created so far (numbers the segments)
  respNo,             \* response-start frames the tagger has handled
  relCount,           \* NextCharacterSequenceFrames the tagger has handled
  open,               \* CharacterGate.open of the gate of each character
  gateLog,            \* per gate: the frames handled, with flag and outcome
  gateQ,              \* per branch: downstream frames on their way to the gate
  ttsQ,               \* per branch: frames travelling down through the tts
  ttsOut,             \* per branch: ids of the frames its tts has pushed on
  upQ,                \* per branch: upstream frames on their way to the gate
  seen_ids,           \* ParallelPipeline: ids of the frames it has let out
  seqIn,              \* every process_frame call of the sequencer, in order
  seqOut,             \* every push_frame call of the sequencer, in order
  tagUp,              \* upstream frames on their way to the tagger
  inResp,             \* the llm is inside a response
  tokCount,           \* text frames of the current response
  sysCount            \* system frames sent so far

taggerVars == <<current_character, segments, handled, emitted, segCount, respNo, relCount>>
pipeVars == <<open, gateLog, gateQ, ttsQ, ttsOut, upQ, seen_ids, seqIn, seqOut, tagUp>>
llmVars == <<inResp, tokCount, sysCount>>
vars == <<taggerVars, pipeVars, llmVars>>

Init ==
  /\ current_character = "AA"
  /\ segments = <<>>
  /\ handled = <<>>
  /\ emitted = <<>>
  /\ segCount = 0
  /\ respNo = 0
  /\ relCount = 0
  /\ open = [c \in Characters |-> FALSE]
  /\ gateLog = [c \in Characters |-> {}]
  /\ gateQ = [c \in Characters |-> <<>>]
  /\ ttsQ = [c \in Characters |-> <<>>]
  /\ ttsOut = [c \in Characters |-> {}]
  /\ upQ = [c \in Characters |-> <<>>]
  /\ seen_ids = {}
  /\ seqIn = <<>>
  /\ seqOut = <<>>
  /\ tagUp = <<>>
  /\ inResp = FALSE
  /\ tokCount = 0
  /\ sysCount = 0

TaggerState ==
  [current_character |-> current_character, segments |-> segments,
   out |-> emitted, seg |-> segCount, resp |-> respNo]

Downstream(pushes) == SelectSeq(pushes, LAMBDA p : p.dir = DOWNSTREAM)
Upstream(pushes) == SelectSeq(pushes, LAMBDA p : p.dir = UPSTREAM)
Frames(pushes) == [i \in 1..Len(pushes) |-> pushes[i].f]

\* ParallelPipeline.process_frame: a downstream frame is queued to the first
\* processor of every branch, an upstream frame to the last one.
BroadcastDown(frames) ==
  gateQ' = [c \in Characters |-> gateQ[c] \o frames]
BroadcastUp(frames) ==
  upQ' = [c \in Characters |-> upQ[c] \o frames]

\* The tagger handles one frame and ends in state st.  With piped, what it
\* pushed downstream goes into the parallel pipeline; what it pushed upstream
\* leaves to the llm.  handled records the call: the frame, its direction,
\* the response it falls in and the length of emitted when the call returns.
TaggerReturns(st, frame, direction, piped) ==
  /\ current_character' = st.current_character
  /\ segments' = st.segments
  /\ emitted' = st.out
  /\ handled' = Append(handled, [f |-> frame, dir |-> direction,
                                 resp |-> st.resp, out |-> Len(st.out)])
  /\ segCount' = st.seg
  /\ respNo' = st.resp
  /\ relCount' = IF frame.kind = "NextCharacterSequenceFrame" THEN relCount + 1 ELSE relCount
  /\ IF piped
       THEN BroadcastDown(Frames(Downstream(SubSeq(st.out, Len(emitted) + 1, Len(st.out)))))
       ELSE UNCHANGED gateQ

TaggerHandles(frame, direction, piped) ==
  TaggerReturns(CharacterTagger_process_frame(TaggerState, frame, direction), frame, direction, piped)

\* ---------------------------------------------------------------- the llm
LlmStarts(piped, maxResp) ==
  /\ ~inResp
  /\ respNo < maxResp
  /\ TaggerHandles(LLMFullResponseStartFrame(NoId, 0, 0), DOWNSTREAM, piped)
  /\ inResp' = TRUE
  /\ tokCount' = 0
  /\ UNCHANGED sysCount

LlmSends(tok, piped) ==
  /\ inResp
  /\ TaggerHandles(LLMTextFrame(tok, <<"L", Len(handled) + 1>>, 0, 0), DOWNSTREAM, piped)
  /\ tokCount' = tokCount + 1
  /\ UNCHANGED <<inResp, sysCount>>

LlmEnds(piped) ==
  /\ inResp
  /\ TaggerHandles(LLMFullResponseEndFrame(NoId, 0, 0), DOWNSTREAM, piped)
  /\ inResp' = FALSE
  /\ UNCHANGED <<tokCount, sysCount>>

\* ------------------------------------------------- the whole pipeline (Spec)
restOfPipe == <<open, gateLog, ttsQ, ttsOut, upQ, seen_ids, seqIn, seqOut>>

LlmStart ==
  /\ LlmStarts(TRUE, MaxResp)
  /\ UNCHANGED <<restOfPipe, tagUp>>

LlmText ==
  /\ tokCount < MaxTok
  /\ \E tok \in PipeTokens : LlmSends(tok, TRUE)
  /\ UNCHANGED <<restOfPipe, tagUp>>

LlmEnd ==
  /\ LlmEnds(TRUE)
  /\ UNCHANGED <<restOfPipe, tagUp>>

\* The tagger handles the next frame that reached it from downstream.
TaggerUp ==
  /\ tagUp # <<>>
  /\ TaggerHandles(Head(tagUp), UPSTREAM, TRUE)
  /\ tagUp' = Tail(tagUp)
  /\ UNCHANGED restOfPipe
  /\ UNCHANGED llmVars

\* A gate handles a frame.  What it pushes downstream enters its branch's
\* tts; what it pushes upstream leaves the branch, and the parallel pipeline
\* lets a frame out once (by id).
GateHandles(c, frame, direction) ==
  LET r == CharacterGate_process_frame(c, open[c], frame, direction)
      down == Frames(Downstream(r.pushes))
      up == SelectSeq(Frames(Upstream(r.pushes)), LAMBDA f : f.id \notin seen_ids)
  IN /\ open' = [open EXCEPT ![c] = r.open]
     /\ gateLog' = [gateLog EXCEPT ![c] = @ \cup
                      {[f |-> frame, dir |-> direction, open |-> r.open, pushed |-> r.pushes # <<>>]}]
     /\ ttsQ' = [ttsQ EXCEPT ![c] = @ \o down]
     /\ tagUp' = tagUp \o up
     /\ seen_ids' = seen_ids \cup {up[i].id : i \in 1..Len(up)}

\* A gate is handed the frames that reach it from the tagger and those that
\* reach it from its tts one at a time, each stream in its order: it handles
\* the next frame from upstream,
GateDown(c) ==
  /\ gateQ[c] # <<>>
  /\ GateHandles(c, Head(gateQ[c]), DOWNSTREAM)
  /\ gateQ' = [gateQ EXCEPT ![c] = Tail(@)]
  /\ UNCHANGED <<ttsOut, upQ, seqIn, seqOut>>
  /\ UNCHANGED <<taggerVars, llmVars>>

\* or the next frame that has come up through its tts.
GateUp(c) ==
  /\ upQ[c] # <<>>
  /\ GateHandles(c, Head(upQ[c]), UPSTREAM)
  /\ upQ' = [upQ EXCEPT ![c] = Tail(@)]
  /\ UNCHANGED <<ttsOut, gateQ, seqIn, seqOut>>
  /\ UNCHANGED <<taggerVars, llmVars>>

\* The sequencer handles one frame.  What it pushes upstream goes up every
\* branch of the parallel pipeline; what it pushes downstream goes to the
\* output transport.
SequencerHandles(frame, direction) ==
  LET n == Cardinality({i \in 1..Len(seqOut) : seqOut[i].f.kind = "NextCharacterSequenceFrame"})
      pushes == TTSSegmentSequencer_process_frame(frame, direction, <<"N", n + 1>>)
  IN /\ seqIn' = Append(seqIn, Push(frame, direction))
     /\ seqOut' = seqOut \o pushes
     /\ BroadcastUp(Frames(Upstream(pushes)))

\* The tts of a branch finishes the frame at its head and pushes it on.  The
\* parallel pipeline lets a frame out once (by id) and the sequencer, which
\* is handed the frames of both branches one at a time in the order they
\* leave the branches, handles it.
Tts(c) ==
  /\ ttsQ[c] # <<>>
  /\ LET f == Head(ttsQ[c])
     IN /\ ttsQ' = [ttsQ EXCEPT ![c] = Tail(@)]
        /\ ttsOut' = [ttsOut EXCEPT ![c] = @ \cup {f.id}]
        /\ seen_ids' = seen_ids \cup {f.id}
        /\ IF f.id \in seen_ids
             THEN UNCHANGED <<seqIn, seqOut, upQ>>
             ELSE SequencerHandles(f, DOWNSTREAM)
  /\ UNCHANGED <<open, gateLog, gateQ, tagUp>>
  /\ UNCHANGED <<taggerVars, llmVars>>

Next ==
  \/ LlmStart
  \/ LlmText
  \/ LlmEnd
  \/ TaggerUp
  \/ \E c \in Characters : GateDown(c)
  \/ \E c \in Characters : GateUp(c)
  \/ \E c \in Characters : Tts(c)

Spec == Init /\ [][Next]_vars

\* ------------------------------ the pipeline with system frames (SpecSystem)
SystemLlmStart ==
  /\ LlmStarts(TRUE, MaxSysResp)
  /\ UNCHANGED <<restOfPipe, tagUp>>

\* A system or termination frame enters the pipeline from upstream (a
\* cancellation, an EndFrame) and reaches the tagger.
SystemDown ==
  /\ sysCount < MaxSys
  /\ \E k \in SystemKinds :
       TaggerHandles(Frame(k, "", <<>>, <<"S", sysCount + 1>>, 0, 0), DOWNSTREAM, TRUE)
  /\ sysCount' = sysCount + 1
  /\ UNCHANGED <<inResp, tokCount>>
  /\ UNCHANGED <<restOfPipe, tagUp>>

\* A system frame of the output transport travels upstream and reaches the
\* sequencer.
SystemUp ==
  /\ sysCount < MaxSys
  /\ SequencerHandles(Frame("SystemFrame", "", <<>>, <<"S", sysCount + 1>>, 0, 0), UPSTREAM)
  /\ sysCount' = sysCount + 1
  /\ UNCHANGED <<open, gateLog, gateQ, ttsQ, ttsOut, seen_ids, tagUp>>
  /\ UNCHANGED <<taggerVars, inResp, tokCount>>

NextSystem ==
  \/ SystemLlmStart
  \/ LlmText
  \/ LlmEnd
  \/ SystemDown
  \/ SystemUp
  \/ TaggerUp
  \/ \E c \in Characters : GateDown(c)
  \/ \E c \in Characters : GateUp(c)
  \/ \E c \in Characters : Tts(c)

SpecSystem == Init /\ [][NextSystem]_vars

\* ------------------------------------------ the tagger alone (SpecTagger)
\* The tagger is driven with every token over Symbols.  A release request
\* can reach it whenever it has emitted more closing markers than it has
\* received release requests: the sequencer sends one for each closing marker.
EndsEmitted ==
  Cardinality({i \in 1..Len(emitted) : emitted[i].f.kind = "LLMFullResponseEndFrame"})
TextsHandled ==
  Cardinality({i \in 1..Len(handled) : handled[i].f.kind = "LLMTextFrame"})

AloneStart ==
  /\ LlmStarts(FALSE, MaxResp)
  /\ UNCHANGED pipeVars

AloneText ==
  /\ TextsHandled < MaxAloneTok
  /\ \E tok \in Tokens : LlmSends(tok, FALSE)
  /\ UNCHANGED pipeVars

AloneEnd ==
  /\ LlmEnds(FALSE)
  /\ UNCHANGED pipeVars

AloneNext ==
  /\ relCount < EndsEmitted
  /\ TaggerHandles(NextCharacterSequenceFrame(<<"N", relCount + 1>>), UPSTREAM, FALSE)
  /\ UNCHANGED pipeVars
  /\ UNCHANGED llmVars

NextTagger ==
  \/ AloneStart
  \/ AloneText
  \/ AloneEnd
  \/ AloneNext

SpecTagger == Init /\ [][NextTagger]_vars

\* ================================================================== claims
\* ---- helpers
RECURSIVE ConcatText(_)
ConcatText(texts) ==
  IF texts = <<>> THEN <<>> ELSE Head(texts) \o ConcatText(Tail(texts))
Strip(text) == SelectSeq(text, LAMBDA sym : sym \notin Characters)
Ids(q) == {q[i].id : i \in 1..Len(q)}
OutBefore(h) == IF h = 1 THEN 0 ELSE handled[h - 1].out
\* The tokens the tagger was handed in response r, in order.
RespTokens(r) ==
  LET hs == SelectSeq(handled, LAMBDA h : h.f.kind = "LLMTextFrame" /\ h.resp = r)
  IN [i \in 1..Len(hs) |-> hs[i].f.text]
\* The text of the text frames the tagger emitted for response r, in order.
EmittedText(r) ==
  LET es == SelectSeq(emitted, LAMBDA e : e.f.kind = "LLMTextFrame" /\ e.f.resp = r)
  IN ConcatText([i \in 1..Len(es) |-> es[i].f.text])
\* The entries of seqOut that reach the sink and belong to a segment.
SinkIdx == {i \in 1..Len(seqOut) : seqOut[i].dir = DOWNSTREAM /\ seqOut[i].f.seg > 0}
\* The places in emitted of the frames of segment n, the first segment of
\* response r, and the handler call that emitted the frame at place j.
SegIdx(n) == {j \in 1..Len(emitted) : emitted[j].f.seg = n}
FirstSeg(r) == Min({emitted[j].f.seg : j \in {k \in 1..Len(emitted) : emitted[k].f.resp = r /\ emitted[k].f.seg > 0}})
HandlerOf(j) == Min({h \in 1..Len(handled) : handled[h].out >= j})
IsRelease(h) == handled[h].f.kind = "NextCharacterSequenceFrame"

\* ---- C1
\* C1 (as stated): within every response the frames of its segments reach the
\* sink in the order in which the segments were created from the source's
\* tags: no frame of a later segment of a response reaches the sink before a
\* frame of an earlier segment of that response.
C1_SinkOrder ==
  \A i \in SinkIdx : \A j \in SinkIdx :
    (i < j /\ seqOut[i].f.resp = seqOut[j].f.resp) => seqOut[i].f.seg <= seqOut[j].f.seg

\* ---- C2
\* C2 (as stated): once the response-end of the latest response and every
\* release request have been handled, the concatenated text of the text frames
\* emitted for that response equals the concatenation of its input tokens
\* with the tag markers removed.
C2_RoundTrip ==
  (~inResp /\ respNo > 0 /\ relCount = EndsEmitted)
    => EmittedText(respNo) = Strip(ConcatText(RespTokens(respNo)))

\* ---- C3
\* The segments whose tag marker the tagger has emitted and whose closing
\* marker has not yet passed the sequencer.
InFlight ==
  {emitted[j].f.seg : j \in {k \in 1..Len(emitted) : emitted[k].f.kind = "CharacterTagFrame"}}
    \ {seqIn[i].f.seg : i \in {k \in 1..Len(seqIn) : seqIn[k].f.kind = "LLMFullResponseEndFrame"}}
\* C3 (as stated): at any time at most one segment is in flight between the
\* tagger and the sequencer.
C3_OneInFlight == Cardinality(InFlight) <= 1

\* ---- C4
\* C4 (as stated): a frame of the i-th segment (i >= 2) of a response is
\* emitted only by a release request that is handled after the response-end
\* of that response, when at least i-1 release requests have been handled
\* since the response began; the segment is emitted as exactly tag marker,
\* start marker, one text frame, end marker; and one release request emits
\* frames of one segment only.
C4_HeldReleasedByRequest ==
  /\ \A j \in 1..Len(emitted) :
       LET n == emitted[j].f.seg
           r == emitted[j].f.resp
           h == HandlerOf(j)
       IN (n > 0 /\ n > FirstSeg(r)) =>
            /\ IsRelease(h)
            /\ \E e \in 1..(h - 1) :
                 /\ handled[e].f.kind = "LLMFullResponseEndFrame"
                 /\ handled[e].resp = r
            /\ Cardinality({g \in 1..h : IsRelease(g) /\ handled[g].resp = r}) >= n - FirstSeg(r)
            /\ \E j0 \in 1..Len(emitted) :
                 /\ SegIdx(n) = j0..(j0 + 3)
                 /\ emitted[j0].f.kind = "CharacterTagFrame"
                 /\ emitted[j0 + 1].f.kind = "LLMFullResponseStartFrame"
                 /\ emitted[j0 + 2].f.kind = "LLMTextFrame"
                 /\ emitted[j0 + 3].f.kind = "LLMFullResponseEndFrame"
  /\ \A h \in 1..Len(handled) :
       IsRelease(h) =>
         Cardinality({emitted[j].f.seg : j \in (OutBefore(h) + 1)..(handled[h].out - 1)}) <= 1

\* ---- C5
\* The speakers of a response text: the speakers its tags name, and the
\* default speaker when text precedes the first tag.
Speakers(text) ==
  LET tags == {i \in 1..Len(text) : text[i] \in Characters}
  IN {text[i] : i \in tags} \cup
     (IF \E i \in 1..Len(text) : \A k \in tags : i < k THEN {DefaultCharacter} ELSE {})
\* The number of tag markers in a token.
TagCount(tok) == Cardinality({i \in 1..Len(tok) : tok[i] \in Characters})
\* C5 (as stated, for responses whose tokens hold at most one tag marker
\* each): while a response in which one speaker occurs is being handled,
\* whatever the responses before it, the tagger's queue holds no buffered
\* segment, and every token of the response that carries text (and no line
\* break) had a text frame emitted in the step that handled it.
C5_SingleSpeakerStreams ==
  LET toks == RespTokens(respNo)
  IN (/\ inResp
      /\ \A i \in 1..Len(toks) : TagCount(toks[i]) <= 1
      /\ Cardinality(Speakers(ConcatText(toks))) <= 1) =>
        /\ \A i \in 1..Len(segments) : ~segments[i].buffered
        /\ \A h \in 1..Len(handled) :
             (/\ handled[h].f.kind = "LLMTextFrame"
              /\ handled[h].resp = respNo
              /\ \A k \in 1..Len(handled[h].f.text) : handled[h].f.text[k] # NL
              /\ Strip(handled[h].f.text) # <<>>)
               => \E j \in (OutBefore(h) + 1)..handled[h].out : emitted[j].f.kind = "LLMTextFrame"

\* ---- C6
\* What a run of the tagger shows: its queue and the frames it pushed, ids
\* left out.
Shown(st) ==
  [segments |-> st.segments,
   out |-> [i \in 1..Len(st.out) |->
              [kind |-> st.out[i].f.kind, character |-> st.out[i].f.character,
               text |-> st.out[i].f.text, dir |-> st.out[i].dir]]]
\* C6 (as stated): inside a response, for every token that holds exactly one
\* tag marker and that marker names the current speaker, handling the token
\* leaves the tagger's queue and output as handling the token without the
\* marker does (nothing at all when only the marker was in the token).
C6_RepeatedTagIsAbsent ==
  inResp =>
    \A tok \in Tokens :
      (/\ TagCount(tok) = 1
       /\ \E i \in 1..Len(tok) : tok[i] = current_character)
        => LET with == CharacterTagger_process_frame(TaggerState, LLMTextFrame(tok, NoId, 0, 0), DOWNSTREAM)
               without == IF Strip(tok) = <<>> THEN TaggerState
                          ELSE CharacterTagger_process_frame(TaggerState, LLMTextFrame(Strip(tok), NoId, 0, 0), DOWNSTREAM)
           IN Shown(with) = Shown(without)

\* ---- C7
\* C7: a gate whose flag is false pushes no text frame; a gate pushes every
\* SystemFrame and EndFrame it handles, open or closed; and a downstream
\* frame a gate did not push is neither in its tts nor has it left it, while
\* one it pushed is.
C7_ClosedGateDropsContent ==
  \A c \in Characters : \A e \in gateLog[c] :
    /\ (e.f.kind = "LLMTextFrame" /\ ~e.open) => ~e.pushed
    /\ e.f.kind \in SystemKinds => e.pushed
    /\ e.dir = DOWNSTREAM =>
         (e.pushed <=> e.f.id \in Ids(ttsQ[c]) \cup ttsOut[c])
\* A gate has dropped a text frame and pushed a system frame while closed,
\* and everything sent to it has left its branch.
C7_Witness ==
  \E c \in Characters :
    /\ \E e \in gateLog[c] : e.f.kind = "LLMTextFrame" /\ ~e.open /\ ~e.pushed
    /\ \E e \in gateLog[c] : e.f.kind \in SystemKinds /\ ~e.open /\ e.pushed
    /\ gateQ[c] = <<>> /\ ttsQ[c] = <<>>

\* ---- C8
\* C8 (as stated): a gate pushes every response-start and every response-end
\* frame it handles, whether its flag is true or false.
C8_MarkersAlwaysForwarded ==
  \A c \in Characters : \A e \in gateLog[c] :
    e.f.kind \in {"LLMFullResponseStartFrame", "LLMFullResponseEndFrame"} => e.pushed
\* C8 (amended): a gate pushes a response-start or response-end frame exactly
\* when its flag is true; with the flag false it pushes exactly the
\* SystemFrames and EndFrames.
C8_MarkersFollowFlag ==
  \A c \in Characters : \A e \in gateLog[c] :
    /\ e.f.kind \in {"LLMFullResponseStartFrame", "LLMFullResponseEndFrame"} => (e.pushed <=> e.open)
    /\ ~e.open => (e.pushed <=> e.f.kind \in SystemKinds)
\* One gate has dropped a response-end while closed, pushed a system frame
\* while closed and pushed a response-end while open.
C8_Witness ==
  \E c \in Characters :
    /\ \E e \in gateLog[c] : e.f.kind = "LLMFullResponseEndFrame" /\ ~e.open /\ ~e.pushed
    /\ \E e \in gateLog[c] : e.f.kind \in SystemKinds /\ ~e.open /\ e.pushed
    /\ \E e \in gateLog[c] : e.f.kind = "LLMFullResponseEndFrame" /\ e.open /\ e.pushed

\* ---- C9
OpenGates == {c \in Characters : open[c]}
TagsHandled(c) == Cardinality({e \in gateLog[c] : e.f.kind = "CharacterTagFrame"})
LastTag ==
  emitted[Max({j \in 1..Len(emitted) : emitted[j].f.kind = "CharacterTagFrame"})].f
\* C9 (as stated): in every reachable state exactly one gate is open.
C9_ExactlyOneOpen == Cardinality(OpenGates) = 1
\* C9 (amended): a gate that has handled no tag marker is closed; when both
\* gates have handled the same, non-zero number of tag markers exactly one is
\* open; and when no frame is on its way to either gate the open gate is the
\* one the last tag marker names.
C9_OneOpenOnceTagged ==
  /\ \A c \in Characters : TagsHandled(c) = 0 => ~open[c]
  /\ (TagsHandled("AA") = TagsHandled("BB") /\ TagsHandled("AA") > 0)
       => Cardinality(OpenGates) = 1
  /\ ((\A c \in Characters : gateQ[c] = <<>>) /\ TagsHandled("AA") > 0)
       => OpenGates = {LastTag.character}
\* Both gates have handled the tags of two segments and the second speaker's
\* gate alone is open.
C9_Witness ==
  /\ TagsHandled("AA") >= 2
  /\ TagsHandled("BB") = TagsHandled("AA")
  /\ OpenGates = {"BB"}

\* ---- C10
SeqIsRelease(p) == p.f.kind = "NextCharacterSequenceFrame"
SeqIsEnd(p) == p.f.kind = "LLMFullResponseEndFrame"
\* C10: the sequencer's pushes without the release requests are the frames it
\* handled, unchanged, in their order and directions; every release request
\* goes upstream and is immediately followed by the push of a response-end
\* marker; and every pushed response-end marker is immediately preceded by a
\* release request.
C10_ReleaseThenForward ==
  /\ SelectSeq(seqOut, LAMBDA p : ~SeqIsRelease(p)) = seqIn
  /\ \A i \in 1..Len(seqOut) :
       SeqIsRelease(seqOut[i]) =>
         /\ seqOut[i].dir = UPSTREAM
         /\ i < Len(seqOut)
         /\ SeqIsEnd(seqOut[i + 1])
  /\ \A i \in 1..Len(seqOut) :
       SeqIsEnd(seqOut[i]) => (i > 1 /\ SeqIsRelease(seqOut[i - 1]))
\* The sequencer has handled a response-end marker and a text frame going
\* downstream and a system frame going upstream.
C10_Witness ==
  /\ \E i \in 1..Len(seqIn) : SeqIsEnd(seqIn[i]) /\ seqIn[i].dir = DOWNSTREAM
  /\ \E i \in 1..Len(seqIn) : seqIn[i].f.kind = "LLMTextFrame" /\ seqIn[i].dir = DOWNSTREAM
  /\ \E i \in 1..Len(seqIn) : seqIn[i].f.kind = "SystemFrame" /\ seqIn[i].dir = UPSTREAM

\* ---- C11
\* The frames the tagger pushed downstream for response r, in order, and
\* whether the response-end of response r has been handled.
EmittedOf(r) == SelectSeq(emitted, LAMBDA e : e.dir = DOWNSTREAM /\ e.f.resp = r)
RespEnded(r) ==
  \E h \in 1..Len(handled) : handled[h].f.kind = "LLMFullResponseEndFrame" /\ handled[h].resp = r
Untagged(r) ==
  /\ RespTokens(r) # <<>>
  /\ \A i \in 1..Len(RespTokens(r)) : TagCount(RespTokens(r)[i]) = 0
\* C11 (as stated): for every response that has tokens and no tag marker in
\* them, what the tagger emitted for it is tag AA, start marker, one text
\* frame for every token handled so far and, once its response-end has been
\* handled, one end marker as the last frame, all of one segment; and while
\* the response is being handled no segment in the queue is buffered.
C11_UntaggedOneSegment ==
  \A r \in 1..respNo :
    Untagged(r) =>
      LET es == EmittedOf(r)
      IN /\ Len(es) >= 3
         /\ es[1].f.kind = "CharacterTagFrame" /\ es[1].f.character = DefaultCharacter
         /\ es[2].f.kind = "LLMFullResponseStartFrame"
         /\ \A i \in 1..Len(es) : es[i].f.seg = es[1].f.seg
         /\ \A i \in 3..Len(es) :
              \/ es[i].f.kind = "LLMTextFrame"
              \/ es[i].f.kind = "LLMFullResponseEndFrame" /\ i = Len(es) /\ RespEnded(r)
         /\ RespEnded(r) => es[Len(es)].f.kind = "LLMFullResponseEndFrame"
         /\ Cardinality({i \in 1..Len(es) : es[i].f.kind = "LLMTextFrame"}) = Len(RespTokens(r))
         /\ (r = respNo /\ inResp) => \A i \in 1..Len(segments) : ~segments[i].buffered

\* ---- C12
\* C12 (as stated): when the frame the tagger handled last is a SystemFrame
\* or an EndFrame, the tagger has pushed that frame on and its queue holds no
\* buffered segment.
C12_TerminationFlushes ==
  (handled # <<>> /\ handled[Len(handled)].f.kind \in SystemKinds) =>
    /\ emitted # <<>>
    /\ emitted[Len(emitted)].f = handled[Len(handled)].f
    /\ \A i \in 1..Len(segments) : ~segments[i].buffered

\* ---- C13
LastHandled == handled[Len(handled)]
\* C13: a step in which the tagger handles a release request while its queue
\* is empty leaves the queue empty and the current speaker unchanged, pushes
\* nothing but the request itself, in the request's (upstream) direction, and
\* hands nothing to the branches downstream.
C13_ReleaseOnEmptyQueue ==
  [][(/\ segments = <<>>
      /\ Len(handled') = Len(handled) + 1
      /\ handled'[Len(handled')].f.kind = "NextCharacterSequenceFrame")
       => /\ segments' = <<>>
          /\ current_character' = current_character
          /\ handled'[Len(handled')].dir = UPSTREAM
          /\ emitted' = Append(emitted, Push(handled'[Len(handled')].f, UPSTREAM))
          /\ gateQ' = gateQ]_vars
\* The tagger has just handled a release request that found its queue empty:
\* the request is the only frame the call pushed.
C13_Witness ==
  /\ handled # <<>>
  /\ LastHandled.f.kind = "NextCharacterSequenceFrame"
  /\ LastHandled.out = OutBefore(Len(handled)) + 1
  /\ segments = <<>>

\* ---- C14
\* A call of the tagger that emitted a held segment: a text frame that the
\* tagger created while it handled a response-end or a release request.
HeldEmitted ==
  \E j \in 1..Len(emitted) :
    /\ emitted[j].f.kind = "LLMTextFrame"
    /\ handled[HandlerOf(j)].f.kind \in {"LLMFullResponseEndFrame", "NextCharacterSequenceFrame"}
\* C14: every segment of the queue behind its head is buffered, so at most
\* one segment, the head, is not; and while a segment that is not buffered is
\* in the queue the tagger has emitted no frame of a segment created after it.
C14_OnlyHeadLive ==
  /\ \A i \in 2..Len(segments) : segments[i].buffered
  /\ Cardinality({i \in 1..Len(segments) : ~segments[i].buffered}) <= 1
  /\ \A i \in 1..Len(segments) :
       ~segments[i].buffered =>
         \A j \in 1..Len(emitted) : emitted[j].f.seg <= segments[i].seg
\* The queue holds a live head with a held segment behind it, and a held
\* segment has been emitted before.
C14_Witness ==
  /\ Len(segments) >= 2
  /\ ~segments[1].buffered
  /\ segments[2].buffered
  /\ HeldEmitted

\* ---- C15
\* The frames the tagger pushed downstream, in order.
DownEmitted == SelectSeq(emitted, LAMBDA e : e.dir = DOWNSTREAM)
KindAt(i) == DownEmitted[i].f.kind
\* C15: the frames the tagger pushed downstream form a prefix of a
\* repetition of tag marker, start marker, text frames, end marker: a tag
\* marker comes first or after an end marker and is followed by a start
\* marker; a start marker follows a tag marker; a text frame and an end
\* marker follow a start marker or a text frame; and no response-start or
\* response-end of the llm is among them, nor any other frame.
C15_Bracketed ==
  \A i \in 1..Len(DownEmitted) :
    /\ KindAt(i) \in {"CharacterTagFrame", "LLMFullResponseStartFrame",
                      "LLMTextFrame", "LLMFullResponseEndFrame"}
    /\ KindAt(i) = "CharacterTagFrame" =>
         /\ i = 1 \/ KindAt(i - 1) = "LLMFullResponseEndFrame"
         /\ i < Len(DownEmitted) /\ KindAt(i + 1) = "LLMFullResponseStartFrame"
    /\ KindAt(i) = "LLMFullResponseStartFrame" =>
         i > 1 /\ KindAt(i - 1) = "CharacterTagFrame"
    /\ KindAt(i) \in {"LLMTextFrame", "LLMFullResponseEndFrame"} =>
         i > 1 /\ KindAt(i - 1) \in {"LLMFullResponseStartFrame", "LLMTextFrame"}
    /\ KindAt(i) \in {"LLMFullResponseStartFrame", "LLMFullResponseEndFrame"} =>
         \A h \in 1..Len(handled) : handled[h].f # DownEmitted[i].f
\* The tagger has emitted a held segment, has closed two segments, has
\* emitted two text frames in a row, and a release request reached it while
\* a response was being handled.
C15_Witness ==
  /\ HeldEmitted
  /\ Cardinality({i \in 1..Len(DownEmitted) : KindAt(i) = "LLMFullResponseEndFrame"}) >= 2
  /\ \E i \in 2..Len(DownEmitted) : KindAt(i) = "LLMTextFrame" /\ KindAt(i - 1) = "LLMTextFrame"
  /\ \E h \in 2..Len(handled) :
       /\ IsRelease(h)
       /\ \E g \in (h + 1)..Len(handled) : handled[g].resp = handled[h].resp /\ handled[g].f.kind = "LLMFullResponseEndFrame"

\* ---- C16
\* The text symbols of a response's input, each with the speaker of the most
\* recent tag marker before it (cur at the start).
RECURSIVE Attributed(_, _)
Attributed(text, cur) ==
  IF text = <<>> THEN <<>>
  ELSE IF Head(text) \in Characters THEN Attributed(Tail(text), Head(text))
  ELSE <<[speaker |-> cur, sym |-> Head(text)]>> \o Attributed(Tail(text), cur)
\* The speaker the tag marker of segment n names.
SegCharacter(n) ==
  LET tags == {j \in 1..Len(emitted) : emitted[j].f.kind = "CharacterTagFrame" /\ emitted[j].f.seg = n}
  IN IF tags = {} THEN "" ELSE emitted[Min(tags)].f.character
\* The text symbols the tagger emitted for response r, in order, each with
\* the speaker of the segment that carries it.
EmittedAttributed(r) ==
  LET es == SelectSeq(emitted, LAMBDA e : e.f.kind = "LLMTextFrame" /\ e.f.resp = r)
  IN ConcatText([i \in 1..Len(es) |->
                   [k \in 1..Len(es[i].f.text) |->
                      [speaker |-> SegCharacter(es[i].f.seg), sym |-> es[i].f.text[k]]]])
\* C16 (as stated, for responses whose tokens hold no line break and at most
\* one tag marker each): once the latest response has ended and every release
\* request has been handled, the text symbols emitted for it, each with the
\* speaker of its segment, are the text symbols of its input, each with the
\* speaker of the most recent tag marker before it (AA if there is none).
C16_SpeakerHomogeneous ==
  LET toks == RespTokens(respNo)
  IN (/\ ~inResp /\ respNo > 0 /\ relCount = EndsEmitted
      /\ \A i \in 1..Len(toks) :
           /\ TagCount(toks[i]) <= 1
           /\ \A k \in 1..Len(toks[i]) : toks[i][k] # NL)
       => EmittedAttributed(respNo) = Attributed(ConcatText(toks), DefaultCharacter)

\* ---- C17
\* Nothing is in transit and the llm is between responses: no step of the
\* tagger, a gate, a tts or the sequencer is possible.
Quiescent ==
  /\ ~inResp
  /\ tagUp = <<>>
  /\ \A c \in Characters : gateQ[c] = <<>> /\ ttsQ[c] = <<>> /\ upQ[c] = <<>>
ClosedAtSequencer(n) ==
  \E i \in 1..Len(seqIn) :
    seqIn[i].f.kind = "LLMFullResponseEndFrame" /\ seqIn[i].f.seg = n
\* C17 (as stated, as the result of a finite run): when every frame in
\* transit has been delivered and every response handed to the tagger has
\* ended, the tagger's queue is empty and the closing marker of every segment
\* created has passed the sequencer.
C17_AllSegmentsClosed ==
  Quiescent =>
    /\ segments = <<>>
    /\ \A n \in 1..segCount : ClosedAtSequencer(n)

\* ---- C18
\* C18 (as stated): the closing marker of a segment that was not buffered is
\* emitted only by the call that handles the response-end of the segment's
\* response: a closing marker emitted while a release request is handled
\* closes a held segment, whose tag, start and text the same call emitted.
C18_ReleaseClosesHeldOnly ==
  \A j \in 1..Len(emitted) :
    (emitted[j].f.kind = "LLMFullResponseEndFrame" /\ IsRelease(HandlerOf(j))) =>
      /\ j - 3 > OutBefore(HandlerOf(j))
      /\ emitted[j - 3].f.kind = "CharacterTagFrame"
      /\ emitted[j - 3].f.seg = emitted[j].f.seg

\* ---- C19
InQueue(n) == \E i \in 1..Len(segments) : segments[i].seg = n
EndEmitted(n) ==
  \E j \in 1..Len(emitted) :
    emitted[j].f.kind = "LLMFullResponseEndFrame" /\ emitted[j].f.seg = n
\* C19 (as stated): every segment the tagger has created is either still in
\* its queue or has been emitted, its end marker included.
C19_RemovedOnlyByEmission ==
  \A n \in 1..segCount : InQueue(n) \/ EndEmitted(n)

\* ---- C20
\* The release requests the sequencer has sent, and those that a gate has
\* handled without pushing them on.
ReleasesSent ==
  {seqOut[i].f.id : i \in {k \in 1..Len(seqOut) : seqOut[k].f.kind = "NextCharacterSequenceFrame"}}
DroppedBy(c, id) == \E e \in gateLog[c] : e.f.id = id /\ ~e.pushed
\* C20 (as stated): a gate pushes a release request on exactly when it is
\* open, and no release request the sequencer has sent is dropped by both
\* gates.
C20_ReleaseNotLost ==
  /\ \A c \in Characters : \A e \in gateLog[c] :
       e.f.kind = "NextCharacterSequenceFrame" => (e.pushed <=> e.open)
  /\ \A id \in ReleasesSent : ~(\A c \in Characters : DroppedBy(c, id))

====
